---- MODULE Spec2Model ----
(***************************************************************************)
(* A model of AirtimeNigeriaSDK (src/unnamed/part_000): the client object, *)
(* its eight operations, the transport makeRequest with the events of the  *)
(* underlying HTTP request, and the JSON encoding and decoding between     *)
(* them.  JavaScript values are tagged records, texts on the wire are      *)
(* sequences of JSON tokens, error messages are sequences of their parts.  *)
(***************************************************************************)
EXTENDS Integers, Sequences, FiniteSets, TLC

VARIABLES client, calls, util

vars == <<client, calls, util>>

(***************************************************************************)
(* Bounds of the model.                                                    *)
(***************************************************************************)
\* call slots of the client (calls the caller has issued and not yet dropped)
MaxCalls == 2
\* plans in a catalog the server returns
MaxPlans == 2
\* "data" events one response body may be split over
MaxChunks == 2
\* "data" events of each response when calls run concurrently
ConcChunks == 2
\* digits a phone string may have more or fewer than a well-formed number
PhoneSlack == 1

CallIds == 1..MaxCalls

(***************************************************************************)
(* JavaScript values.                                                      *)
(***************************************************************************)
Undef == [t |-> "undef"]
Null == [t |-> "null"]
Str(s) == [t |-> "str", s |-> s]
Num(n) == [t |-> "num", n |-> n]
Bool(b) == [t |-> "bool", b |-> b]
Arr(a) == [t |-> "arr", a |-> a]
\* an object is the sequence of its own properties, in the order of its own
\* keys: integer keys first, ascending, then the others in insertion order
Obj(o) == [t |-> "obj", o |-> o]
Prop(k, v) == [k |-> k, v |-> v]

\* the keys that are canonical array indices, of those the model's texts use
IndexKeys == <<"0", "1", "2", "3", "4", "5", "6", "7", "8", "9">>

IsIndexKey(k) == \E i \in 1..Len(IndexKeys) : IndexKeys[i] = k
IndexOfKey(k) == CHOOSE i \in 1..Len(IndexKeys) : IndexKeys[i] = k

\* o[k] = v on the own properties o: an existing key keeps its place and takes
\* the new value, a new integer key goes among the integer keys, any other
\* new key goes last
DefineProp(o, k, v) ==
  IF \E i \in 1..Len(o) : o[i].k = k
    THEN [i \in 1..Len(o) |-> IF o[i].k = k THEN Prop(k, v) ELSE o[i]]
  ELSE IF IsIndexKey(k)
    THEN LET before == Cardinality({i \in 1..Len(o) :
                          IsIndexKey(o[i].k) /\ IndexOfKey(o[i].k) < IndexOfKey(k)})
         IN SubSeq(o, 1, before) \o <<Prop(k, v)>> \o SubSeq(o, before + 1, Len(o))
  ELSE Append(o, Prop(k, v))

\* ToBoolean: what `!x`, `x && y` and `x || y` test
Truthy(v) ==
  CASE v.t = "undef" -> FALSE
    [] v.t = "null" -> FALSE
    [] v.t = "bool" -> v.b
    [] v.t = "num" -> v.n # 0
    [] v.t = "str" -> v.s # ""
    [] OTHER -> TRUE

\* a property read v.key throws a TypeError on undefined and null
Readable(v) == v.t \notin {"undef", "null"}

\* v.key for a readable v: the last property of that name, else undefined
Get(v, key) ==
  IF v.t # "obj" THEN Undef
  ELSE LET idx == {i \in 1..Len(v.o) : v.o[i].k = key}
       IN IF idx = {} THEN Undef
          ELSE v.o[CHOOSE i \in idx : \A j \in idx : j <= i].v

\* `...(x)` inside an object literal: the own properties of an object, nothing
\* for undefined, null, false, 0 and ""
Spread(v) == IF v.t = "obj" THEN v.o ELSE <<>>

\* `cond && { key: value }`: the left operand when it is falsy
AndObj(cond, key, value) ==
  IF Truthy(cond) THEN Obj(<<Prop(key, value)>>) ELSE cond

\* Array.prototype.includes over a list of strings (SameValueZero)
Includes(list, v) == v.t = "str" /\ \E i \in 1..Len(list) : list[i] = v.s

\* x === y
StrictEq(x, y) == x = y

(***************************************************************************)
(* JSON texts: sequences of tokens.                                        *)
(***************************************************************************)
P(p) == [k |-> "p", p |-> p]
TStr(s) == [k |-> "s", s |-> s]
TNum(n) == [k |-> "n", n |-> n]
TLit(l) == [k |-> "l", l |-> l]
\* a token no JSON text has, such as the "<" of an HTML error page
TBad(x) == [k |-> "x", x |-> x]

\* strings with a character of more than one byte in UTF-8, and what each
\* becomes when the bytes of that character are decoded apart: U+FFFD twice
MultiByteStrings == {"café"}
DecodedApart(s) == IF s = "café" THEN "caf��" ELSE s

\* the bytes of a text, as far as "data" events can split them: a token is
\* one piece, but a string with a multi-byte character is two, the bytes up
\* to the middle of that character and the bytes after
TLead(s) == [k |-> "lead", s |-> s]
TTrail(s) == [k |-> "trail", s |-> s]

RECURSIVE Wire(_)
Wire(toks) ==
  IF toks = <<>> THEN <<>>
  ELSE (IF Head(toks).k = "s" /\ Head(toks).s \in MultiByteStrings
          THEN <<TLead(Head(toks).s), TTrail(Head(toks).s)>>
          ELSE <<Head(toks)>>)
       \o Wire(Tail(toks))

\* the halves of a string whose multi-byte character was decoded apart
THalf(s, half) == [k |-> "half", s |-> s, half |-> half]

\* String(chunk) of a Buffer, as `data += chunk` takes it: the bytes of an
\* incomplete character at either end decode to U+FFFD
RECURSIVE ChunkToString(_)
ChunkToString(chunk) ==
  IF chunk = <<>> THEN <<>>
  ELSE IF Head(chunk).k = "lead"
    THEN IF Len(chunk) >= 2 /\ chunk[2] = TTrail(Head(chunk).s)
           THEN <<TStr(Head(chunk).s)>> \o ChunkToString(SubSeq(chunk, 3, Len(chunk)))
           ELSE <<THalf(Head(chunk).s, 1)>> \o ChunkToString(Tail(chunk))
  ELSE IF Head(chunk).k = "trail"
    THEN <<THalf(Head(chunk).s, 2)>> \o ChunkToString(Tail(chunk))
  ELSE <<Head(chunk)>> \o ChunkToString(Tail(chunk))

\* text + more: the two halves of a string meet as one string token
Concat(text, more) ==
  IF /\ text # <<>> /\ more # <<>>
     /\ text[Len(text)].k = "half" /\ text[Len(text)].half = 1
     /\ more[1] = THalf(text[Len(text)].s, 2)
    THEN SubSeq(text, 1, Len(text) - 1)
         \o <<TStr(DecodedApart(text[Len(text)].s))>> \o Tail(more)
    ELSE text \o more

RECURSIVE Stringify(_)
RECURSIVE StringifyItems(_, _)
RECURSIVE StringifyProps(_, _)

\* JSON.stringify of a value (no undefined inside: the code never builds one)
Stringify(v) ==
  CASE v.t = "str" -> <<TStr(v.s)>>
    [] v.t = "num" -> <<TNum(v.n)>>
    [] v.t = "bool" -> <<TLit(IF v.b THEN "true" ELSE "false")>>
    [] v.t = "null" -> <<TLit("null")>>
    [] v.t = "arr" -> <<P("[")>> \o StringifyItems(v.a, 1) \o <<P("]")>>
    [] v.t = "obj" -> <<P("{")>> \o StringifyProps(v.o, 1) \o <<P("}")>>
    [] OTHER -> <<>>

StringifyItems(a, i) ==
  IF i > Len(a) THEN <<>>
  ELSE Stringify(a[i])
       \o (IF i < Len(a) THEN <<P(",")>> ELSE <<>>)
       \o StringifyItems(a, i + 1)

StringifyProps(o, i) ==
  IF i > Len(o) THEN <<>>
  ELSE <<TStr(o[i].k), P(":")>> \o Stringify(o[i].v)
       \o (IF i < Len(o) THEN <<P(",")>> ELSE <<>>)
       \o StringifyProps(o, i + 1)

\* the SyntaxError JSON.parse throws at token i of toks
SyntaxError(toks, i) ==
  [ok |-> FALSE, isError |-> TRUE,
   message |-> IF i > Len(toks) THEN "Unexpected end of JSON input"
               ELSE "Unexpected token in JSON"]

Parsed(v, next) == [ok |-> TRUE, v |-> v, next |-> next]

IsP(toks, i, p) == i <= Len(toks) /\ toks[i] = P(p)

RECURSIVE ParseValue(_, _)
RECURSIVE ParseElements(_, _, _)
RECURSIVE ParseMembers(_, _, _)

ParseValue(toks, i) ==
  IF i > Len(toks) THEN SyntaxError(toks, i)
  ELSE LET tk == toks[i] IN
    CASE tk.k = "s" -> Parsed(Str(tk.s), i + 1)
      [] tk.k = "n" -> Parsed(Num(tk.n), i + 1)
      [] tk.k = "l" /\ tk.l = "true" -> Parsed(Bool(TRUE), i + 1)
      [] tk.k = "l" /\ tk.l = "false" -> Parsed(Bool(FALSE), i + 1)
      [] tk.k = "l" /\ tk.l = "null" -> Parsed(Null, i + 1)
      [] tk.k = "p" /\ tk.p = "[" ->
           IF IsP(toks, i + 1, "]") THEN Parsed(Arr(<<>>), i + 2)
           ELSE ParseElements(toks, i + 1, <<>>)
      [] tk.k = "p" /\ tk.p = "{" ->
           IF IsP(toks, i + 1, "}") THEN Parsed(Obj(<<>>), i + 2)
           ELSE ParseMembers(toks, i + 1, <<>>)
      [] OTHER -> SyntaxError(toks, i)

ParseElements(toks, i, acc) ==
  LET r == ParseValue(toks, i) IN
    IF ~r.ok THEN r
    ELSE IF IsP(toks, r.next, ",")
           THEN ParseElements(toks, r.next + 1, Append(acc, r.v))
    ELSE IF IsP(toks, r.next, "]")
           THEN Parsed(Arr(Append(acc, r.v)), r.next + 1)
    ELSE SyntaxError(toks, r.next)

ParseMembers(toks, i, acc) ==
  IF i > Len(toks) \/ toks[i].k # "s" THEN SyntaxError(toks, i)
  ELSE IF ~IsP(toks, i + 1, ":") THEN SyntaxError(toks, i + 1)
  ELSE LET r == ParseValue(toks, i + 2) IN
    IF ~r.ok THEN r
    ELSE IF IsP(toks, r.next, ",")
           THEN ParseMembers(toks, r.next + 1, DefineProp(acc, toks[i].s, r.v))
    ELSE IF IsP(toks, r.next, "}")
           THEN Parsed(Obj(DefineProp(acc, toks[i].s, r.v)), r.next + 1)
    ELSE SyntaxError(toks, r.next)

\* JSON.parse(text): the decoded value, or the SyntaxError it throws
JSONparse(toks) ==
  LET r == ParseValue(toks, 1) IN
    IF ~r.ok THEN r
    ELSE IF r.next # Len(toks) + 1 THEN SyntaxError(toks, r.next)
    ELSE r

(***************************************************************************)
(* The client: constructor (part_000 lines 33-41).                         *)
(***************************************************************************)
DefaultTimeout == 30000

DefaultBaseURL ==
  [protocol |-> "https:", hostname |-> "www.airtimenigeria.com", port |-> 0,
   path |-> <<"api", "v1">>]

\* an override of the base URL that has a path, a port and the plain scheme
LocalBaseURL ==
  [protocol |-> "http:", hostname |-> "localhost", port |-> 8080,
   path |-> <<"mock", "api">>]

NoOptions == [hasBaseURL |-> FALSE, baseURL |-> DefaultBaseURL, timeout |-> 0]

\* the option objects the caller constructs the client with (timeout 0: none given)
ClientOptions ==
  {NoOptions,
   [hasBaseURL |-> TRUE, baseURL |-> LocalBaseURL, timeout |-> 5000]}

\* the tokens the caller passes: "" stands for a falsy token (none given)
ApiTokens == {"", "secret-token"}

\* what `new` gives when the constructor throws: no client
Threw(message) == [threw |-> message]

\* lines 33-41
Constructor(apiToken, options) ==
  IF apiToken = "" THEN Threw("API token is required")
  ELSE [apiToken |-> apiToken,
        baseURL |-> IF options.hasBaseURL THEN options.baseURL ELSE DefaultBaseURL,
        timeout |-> IF options.timeout # 0 THEN options.timeout ELSE DefaultTimeout]

\* the clients the caller gets to work with
Clients ==
  {Constructor(t, o) : t \in ApiTokens, o \in ClientOptions}
    \ {Threw("API token is required")}

(***************************************************************************)
(* Promises, errors and outcomes.                                          *)
(***************************************************************************)
NoPromise == [state |-> "none"]
Pending == [state |-> "pending"]

\* Reject acting on a promise that is already settled
RejectOverwriting(p, e) == [state |-> "rejected", error |-> e]

\* resolve and reject of a promise act only while it is pending
Resolve(p, v) == IF p.state = "pending" THEN [state |-> "fulfilled", value |-> v] ELSE p
Reject(p, e) == IF p.state = "pending" THEN [state |-> "rejected", error |-> e] ELSE p

NoOutcome == [kind |-> "none"]
Returned(v) == [kind |-> "result", value |-> v]
Raised(message) == [kind |-> "error", message |-> message]

NoError == <<>>
TypeErrorMessage == <<"TypeError">>

(***************************************************************************)
(* The transport: makeRequest (part_000 lines 50-113).                     *)
(***************************************************************************)
Endpoint(segs) == [absolute |-> TRUE, segs |-> segs]

\* new URL(endpoint, base): a path-absolute reference replaces the base's path,
\* a relative one replaces the base path's last segment
ResolveURL(endpoint, base) ==
  [base EXCEPT !.path =
     IF endpoint.absolute THEN endpoint.segs
     ELSE SubSeq(base.path, 1, Len(base.path) - 1) \o endpoint.segs]

\* lines 56-74: the URL, the body text and the options of the request
RequestOptions(cl, endpoint, method, data) ==
  LET url == ResolveURL(endpoint, cl.baseURL)
      isHttps == url.protocol = "https:"
      hasBody == Truthy(data)
      postData == IF hasBody THEN Stringify(data) ELSE <<>>
  IN [secure |-> isHttps,
      hostname |-> url.hostname,
      port |-> IF url.port # 0 THEN url.port ELSE IF isHttps THEN 443 ELSE 80,
      path |-> url.path,
      method |-> method,
      authorization |-> <<"Bearer ", cl.apiToken>>,
      accept |-> "application/json",
      contentType |-> "application/json",
      hasContentLength |-> hasBody,
      contentLength |-> Len(postData),
      timeout |-> cl.timeout,
      hasBody |-> hasBody,
      body |-> postData]

\* OnEnd treating a status of 400 and above as a failure
OnEndCheckingStatus(promise, statusCode, responseData) ==
  LET parsed == JSONparse(responseData) IN
    IF statusCode >= 400
      THEN Reject(promise, <<"Request failed: ", "bad status">>)
    ELSE IF parsed.ok
      THEN Resolve(promise, [statusCode |-> IF statusCode # 0 THEN statusCode ELSE 200,
                             data |-> parsed.v])
      ELSE Reject(promise,
                  <<"Failed to parse response: ",
                    IF parsed.isError THEN parsed.message ELSE "Unknown parsing error">>)

\* OnEnd with the test `error instanceof Error` inverted
OnEndUnknownMessage(promise, statusCode, responseData) ==
  LET parsed == JSONparse(responseData) IN
    IF parsed.ok
      THEN Resolve(promise, [statusCode |-> IF statusCode # 0 THEN statusCode ELSE 200,
                             data |-> parsed.v])
      ELSE Reject(promise,
                  <<"Failed to parse response: ",
                    IF ~parsed.isError THEN parsed.message ELSE "Unknown parsing error">>)

\* lines 84-94: the "end" handler settles the promise with the decoded body
OnEnd(promise, statusCode, responseData) ==
  LET parsed == JSONparse(responseData) IN
    IF parsed.ok
      THEN Resolve(promise, [statusCode |-> IF statusCode # 0 THEN statusCode ELSE 200,
                             data |-> parsed.v])
      ELSE Reject(promise,
                  <<"Failed to parse response: ",
                    IF parsed.isError THEN parsed.message ELSE "Unknown parsing error">>)

\* lines 98-100: the "error" handler
OnError(promise, message) == Reject(promise, <<"Request failed: ", message>>)

\* lines 102-105: the "timeout" handler, after req.destroy()
OnTimeout(promise) == Reject(promise, <<"Request timeout">>)

(***************************************************************************)
(* Domain operations: validation and wire mapping (part_000 lines 126-351).*)
(***************************************************************************)
MinAmount == 50
MaxAmount == 50000

NetworkOperators == <<"mtn", "airtel", "glo", "9mobile">>
ProcessTypes == <<"queue", "instant">>

InvalidOperatorMessage ==
  <<"Invalid network operator. Must be one of: mtn, airtel, glo, 9mobile">>

\* the parameters of a call: every name an operation destructures or takes
NoParams ==
  [networkOperator |-> Undef, phone |-> Undef, amount |-> Undef,
   maxAmount |-> Undef, callbackUrl |-> Undef, customerReference |-> Undef,
   packageCode |-> Undef, planId |-> Undef, processType |-> Undef,
   priceType |-> Undef,
   endpoint |-> Endpoint(<<>>), method |-> Undef, data |-> Undef]

\* AirtimeValidation with the bounds of the amount taken as exclusive
AirtimeValidationExclusive(p) ==
  IF ~Truthy(p.networkOperator) \/ ~Truthy(p.phone) \/ ~Truthy(p.amount)
       \/ ~Truthy(p.maxAmount)
    THEN <<"networkOperator, phone, amount, and maxAmount are required">>
  ELSE IF ~Includes(NetworkOperators, p.networkOperator)
    THEN InvalidOperatorMessage
  ELSE IF p.amount.n <= MinAmount \/ p.amount.n >= MaxAmount
    THEN <<"Amount must be between 50 and 50000 NGN">>
  ELSE NoError

\* lines 138-152: the message of the error purchaseAirtime throws, or NoError
AirtimeValidation(p) ==
  IF ~Truthy(p.networkOperator) \/ ~Truthy(p.phone) \/ ~Truthy(p.amount)
       \/ ~Truthy(p.maxAmount)
    THEN <<"networkOperator, phone, amount, and maxAmount are required">>
  ELSE IF ~Includes(NetworkOperators, p.networkOperator)
    THEN InvalidOperatorMessage
  ELSE IF p.amount.n < MinAmount \/ p.amount.n > MaxAmount
    THEN <<"Amount must be between 50 and 50000 NGN">>
  ELSE NoError

\* lines 154-161
AirtimeRequestData(p) ==
  Obj(<<Prop("network_operator", p.networkOperator),
        Prop("phone", p.phone),
        Prop("amount", p.amount),
        Prop("max_amount", p.maxAmount)>>
      \o Spread(AndObj(p.callbackUrl, "callback_url", p.callbackUrl))
      \o Spread(AndObj(p.customerReference, "customer_reference", p.customerReference)))

\* lines 192-198
DataValidation(p) ==
  IF ~Truthy(p.phone) THEN <<"phone is required">>
  ELSE IF ~Truthy(p.packageCode) /\ ~Truthy(p.planId)
    THEN <<"Either packageCode or planId is required">>
  ELSE NoError

\* PlanIdObj without its `!packageCode`
PlanIdObjAlways(p) == AndObj(p.planId, "plan_id", p.planId)

\* `planId && !packageCode && { plan_id: planId }`
PlanIdObj(p) ==
  IF ~Truthy(p.planId) THEN p.planId
  ELSE IF Truthy(p.packageCode) THEN Bool(FALSE)
  ELSE Obj(<<Prop("plan_id", p.planId)>>)

\* lines 200-207
DataRequestData(p) ==
  Obj(<<Prop("phone", p.phone)>>
      \o Spread(AndObj(p.packageCode, "package_code", p.packageCode))
      \o Spread(PlanIdObj(p))
      \o Spread(AndObj(p.maxAmount, "max_amount", p.maxAmount))
      \o Spread(AndObj(p.callbackUrl, "callback_url", p.callbackUrl))
      \o Spread(AndObj(p.customerReference, "customer_reference", p.customerReference)))

\* VendValidation without the check of processType
VendValidationAnyProcess(p) ==
  IF ~Truthy(p.phone) THEN <<"phone is required">>
  ELSE IF ~Truthy(p.packageCode) /\ ~Truthy(p.planId)
    THEN <<"Either packageCode or planId is required">>
  ELSE NoError

\* lines 240-250
VendValidation(p) ==
  IF ~Truthy(p.phone) THEN <<"phone is required">>
  ELSE IF ~Truthy(p.packageCode) /\ ~Truthy(p.planId)
    THEN <<"Either packageCode or planId is required">>
  ELSE IF Truthy(p.processType) /\ ~Includes(ProcessTypes, p.processType)
    THEN <<"processType must be either \"queue\" or \"instant\"">>
  ELSE NoError

\* lines 252-259
VendRequestData(p) ==
  Obj(<<Prop("phone", p.phone)>>
      \o Spread(AndObj(p.packageCode, "package_code", p.packageCode))
      \o Spread(PlanIdObj(p))
      \o Spread(AndObj(p.processType, "process_type", p.processType))
      \o Spread(AndObj(p.callbackUrl, "callback_url", p.callbackUrl))
      \o Spread(AndObj(p.customerReference, "customer_reference", p.customerReference)))

\* lines 301-305
OperatorValidation(p) ==
  IF ~Includes(NetworkOperators, p.networkOperator)
    THEN InvalidOperatorMessage
  ELSE NoError

\* the error an operation throws before it calls makeRequest, or NoError
Validation(op, p) ==
  CASE op = "purchaseAirtime" -> AirtimeValidation(p)
    [] op = "purchaseData" -> DataValidation(p)
    [] op = "vendDataFromWallet" -> VendValidation(p)
    [] op = "getDataPlansByOperator" -> OperatorValidation(p)
    [] OTHER -> NoError

\* the arguments of the makeRequest call an operation makes
RequestArgs(op, p) ==
  CASE op = "purchaseAirtime" ->
         [endpoint |-> Endpoint(<<"airtime">>), method |-> "POST",
          data |-> AirtimeRequestData(p)]
    [] op = "purchaseData" ->
         [endpoint |-> Endpoint(<<"data">>), method |-> "POST",
          data |-> DataRequestData(p)]
    [] op = "vendDataFromWallet" ->
         [endpoint |-> Endpoint(<<"data", "wallet">>), method |-> "POST",
          data |-> VendRequestData(p)]
    [] op = "getWalletBalance" ->
         [endpoint |-> Endpoint(<<"balance">>), method |-> "GET", data |-> Null]
    \* a direct call of makeRequest: lines 50-54, with the defaults of method
    \* and data
    [] op = "makeRequest" ->
         [endpoint |-> p.endpoint,
          method |-> IF p.method = Undef THEN "GET" ELSE p.method.s,
          data |-> IF p.data = Undef THEN Null ELSE p.data]
    [] OTHER ->
         [endpoint |-> Endpoint(<<"data", "plans">>), method |-> "GET", data |-> Null]

(***************************************************************************)
(* What an operation does with the settled makeRequest promise.            *)
(***************************************************************************)
\* PlansByOperator without the test of the success flag
PlansByOperatorIgnoringSuccess(response, networkOperator) ==
  IF ~Readable(response) THEN Raised(TypeErrorMessage)
  ELSE LET data == Get(response, "data") IN
    IF ~Truthy(data) THEN Returned(Arr(<<>>))
    ELSE IF data.t # "arr" THEN Raised(TypeErrorMessage)
    ELSE IF \E i \in 1..Len(data.a) : ~Readable(data.a[i])
      THEN Raised(TypeErrorMessage)
    ELSE Returned(Arr(SelectSeq(data.a,
           LAMBDA plan : StrictEq(Get(plan, "network_operator"), networkOperator))))

\* lines 308-313: the plans of the operator, [] without success and data
PlansByOperator(response, networkOperator) ==
  IF ~Readable(response) THEN Raised(TypeErrorMessage)
  ELSE IF ~Truthy(Get(response, "success")) THEN Returned(Arr(<<>>))
  ELSE LET data == Get(response, "data") IN
    IF ~Truthy(data) THEN Returned(Arr(<<>>))
    ELSE IF data.t # "arr" THEN Raised(TypeErrorMessage)
    ELSE IF \E i \in 1..Len(data.a) : ~Readable(data.a[i])
      THEN Raised(TypeErrorMessage)
    ELSE Returned(Arr(SelectSeq(data.a,
           LAMBDA plan : StrictEq(Get(plan, "network_operator"), networkOperator))))

\* FindByCode returning the last match instead of the first
FindByCodeLast(a, packageCode) ==
  LET hits == {i \in 1..Len(a) :
                 Readable(a[i]) /\ StrictEq(Get(a[i], "package_code"), packageCode)}
  IN IF \E i \in 1..Len(a) : ~Readable(a[i])
       THEN Raised(TypeErrorMessage)
     ELSE IF hits = {} THEN Returned(Undef)
     ELSE Returned(a[CHOOSE i \in hits : \A j \in hits : j <= i])

\* [].find: the first element the predicate holds of, reading each element
\* before it; undefined when there is none
FindByCode(a, packageCode) ==
  LET hits == {i \in 1..Len(a) :
                 Readable(a[i]) /\ StrictEq(Get(a[i], "package_code"), packageCode)}
      first == IF hits = {} THEN Len(a) + 1
               ELSE CHOOSE i \in hits : \A j \in hits : i <= j
  IN IF \E i \in 1..Len(a) : i < first /\ ~Readable(a[i])
       THEN Raised(TypeErrorMessage)
     ELSE IF hits = {} THEN Returned(Undef)
     ELSE Returned(a[first])

\* lines 323-330
FoundPlan(response, packageCode) ==
  IF ~Readable(response) THEN Raised(TypeErrorMessage)
  ELSE IF ~Truthy(Get(response, "success")) THEN Returned(Null)
  ELSE LET data == Get(response, "data") IN
    IF ~Truthy(data) THEN Returned(Null)
    ELSE IF data.t # "arr" THEN Raised(TypeErrorMessage)
    ELSE LET found == FindByCode(data.a, packageCode) IN
      IF found.kind = "error" THEN found
      ELSE IF Truthy(found.value) THEN found
      ELSE Returned(Null)

\* PriceTypeOf with another default tier
PriceTypeOfAgent(priceType) == IF priceType = Undef THEN Str("agent") ELSE priceType

\* line 341: the default of the priceType parameter
PriceTypeOf(priceType) == IF priceType = Undef THEN Str("regular") ELSE priceType

\* line 346: `${priceType}_price`
PriceKey(priceType) ==
  CASE priceType = Str("regular") -> "regular_price"
    [] priceType = Str("agent") -> "agent_price"
    [] priceType = Str("dealer") -> "dealer_price"
    [] OTHER -> "_price"

\* lines 343-350
PlanPrice(response, packageCode, priceType) ==
  LET plan == FoundPlan(response, packageCode) IN
    IF plan.kind = "error" THEN plan
    ELSE IF ~Truthy(plan.value) THEN Returned(Null)
    ELSE LET price == Get(plan.value, PriceKey(PriceTypeOf(priceType))) IN
      IF Truthy(price) THEN Returned(price) ELSE Returned(Null)

\* the outcome of an operation whose makeRequest promise is settled: a rejection
\* is thrown on by every await, a response is unwrapped (response.data); the
\* caller of makeRequest itself gets the response { statusCode, data }
Continuation(op, p, promise) ==
  IF promise.state = "rejected" THEN Raised(promise.error)
  ELSE IF op = "makeRequest"
    THEN Returned(Obj(<<Prop("statusCode", Num(promise.value.statusCode)),
                        Prop("data", promise.value.data)>>))
  ELSE LET response == promise.value.data IN
    CASE op = "getDataPlansByOperator" -> PlansByOperator(response, p.networkOperator)
      [] op = "findDataPlan" -> FoundPlan(response, p.packageCode)
      [] op = "getDataPlanPrice" -> PlanPrice(response, p.packageCode, p.priceType)
      [] OTHER -> Returned(response)

(***************************************************************************)
(* The inputs of the model: what callers pass and what the server answers. *)
(***************************************************************************)
OperatorInputs ==
  {Undef, Str(""), Str("mtn"), Str("airtel"), Str("glo"), Str("9mobile"),
   Str("sprint"), Str("MTN")}
PhoneInputs == {Undef, Str(""), Str("08012345678")}
AmountInputs ==
  {Undef, Num(0), Num(-50), Num(25), Num(49), Num(50), Num(1000),
   Num(50000), Num(50001), Num(60000)}
MaxAmountInputs == {Undef, Str(""), Str("1000")}
\* callbackUrl and customerReference
OptionalInputs ==
  {<<Undef, Undef>>, <<Str("https://example.com/cb"), Undef>>, <<Str(""), Str("ref-1")>>}
PackageCodeInputs == {Undef, Str(""), Str("MTN1"), Str("AIR1"), Str("NONE")}
PlanIdInputs == {Undef, Num(0), Num(7)}
ProcessTypeInputs == {Undef, Str(""), Str("queue"), Str("instant"), Str("later")}
PriceTypeInputs == {Undef, Str("regular"), Str("agent"), Str("dealer")}

AirtimeParams ==
  {[NoParams EXCEPT !.networkOperator = o, !.phone = ph, !.amount = a,
                    !.maxAmount = m, !.callbackUrl = oc[1], !.customerReference = oc[2]] :
     o \in OperatorInputs, ph \in PhoneInputs, a \in AmountInputs,
     m \in MaxAmountInputs, oc \in OptionalInputs}

DataParams ==
  {[NoParams EXCEPT !.phone = ph, !.packageCode = pk, !.planId = id,
                    !.maxAmount = m, !.callbackUrl = oc[1], !.customerReference = oc[2]] :
     ph \in PhoneInputs, pk \in PackageCodeInputs \ {Str("AIR1"), Str("NONE")},
     id \in PlanIdInputs, m \in MaxAmountInputs \ {Str("")},
     oc \in OptionalInputs}

VendParams ==
  {[NoParams EXCEPT !.phone = ph, !.packageCode = pk, !.planId = id,
                    !.processType = pt, !.callbackUrl = oc[1], !.customerReference = oc[2]] :
     ph \in PhoneInputs, pk \in PackageCodeInputs \ {Str("AIR1"), Str("NONE")},
     id \in PlanIdInputs, pt \in ProcessTypeInputs, oc \in OptionalInputs}

OperatorParams == {[NoParams EXCEPT !.networkOperator = o] : o \in OperatorInputs}

FindParams ==
  {[NoParams EXCEPT !.packageCode = pk] : pk \in PackageCodeInputs \ {Undef, Str("")}}

PriceParams ==
  {[NoParams EXCEPT !.packageCode = pk, !.priceType = pt] :
     pk \in PackageCodeInputs \ {Undef, Str("")}, pt \in PriceTypeInputs}

\* direct calls of the public method makeRequest(endpoint, method, data)
DirectParams ==
  {[NoParams EXCEPT !.endpoint = Endpoint(<<"wallet", "withdraw">>),
                    !.method = Str("DELETE"),
                    !.data = Obj(<<Prop("amount", Num(5))>>)],
   [NoParams EXCEPT !.endpoint = Endpoint(<<"balance">>)],
   [NoParams EXCEPT !.endpoint = [absolute |-> FALSE, segs |-> <<"balance">>],
                    !.method = Str("GET"), !.data = Null],
   [NoParams EXCEPT !.endpoint = Endpoint(<<"airtime">>), !.method = Str("POST"),
                    !.data = Obj(<<Prop("network_operator", Str("sprint")),
                                   Prop("amount", Num(1))>>)]}

\* a plan of the catalog, as the server encodes it
Plan(operator, code, regular, agent, dealer) ==
  Obj(<<Prop("network_operator", Str(operator)), Prop("package_code", Str(code)),
        Prop("regular_price", Num(regular)), Prop("agent_price", Num(agent)),
        Prop("dealer_price", Num(dealer))>>)

PlanPool ==
  {Plan("mtn", "MTN1", 100, 90, 80),
   Plan("airtel", "AIR1", 200, 0, 180),
   Plan("mtn", "MTN1", 150, 140, 130)}

RECURSIVE SeqsUpTo(_, _)
SeqsUpTo(S, n) ==
  IF n = 0 THEN {<<>>}
  ELSE LET shorter == SeqsUpTo(S, n - 1)
       IN shorter \cup {Append(q, x) : q \in shorter, x \in S}

Catalogs == SeqsUpTo(PlanPool, MaxPlans)

Envelope(success, data) ==
  Obj(<<Prop("success", Bool(success)), Prop("data", data)>>)

\* the values the server encodes in answer to GET /data/plans
CatalogValues ==
  {Envelope(ok, Arr(cat)) : ok \in BOOLEAN, cat \in Catalogs}
  \cup {Envelope(TRUE, Null),
        Obj(<<Prop("data", Arr(<<Plan("mtn", "MTN1", 100, 90, 80)>>))>>)}

\* the values any endpoint may answer with: envelopes and other JSON
GenericValues ==
  {Obj(<<Prop("success", Bool(TRUE)), Prop("message", Str("ok"))>>),
   Obj(<<Prop("success", Bool(FALSE)), Prop("message", Str("Insufficient balance"))>>),
   Null,
   Num(0),
   \* a message with a multi-byte character, in the middle of the text
   Obj(<<Prop("success", Bool(TRUE)), Prop("message", Str("café")),
         Prop("ids", Arr(<<Num(1)>>))>>)}

\* texts that are not JSON: nothing, an HTML page, a truncated object, trailing text
InvalidTexts ==
  {<<>>,
   <<TBad("<html>")>>,
   <<P("{"), TStr("success"), P(":")>>,
   <<P("{"), P("}"), TStr("trailing")>>}

CatalogBodies == {Stringify(v) : v \in CatalogValues}
GenericBodies == {Stringify(v) : v \in GenericValues} \cup InvalidTexts

Statuses == {200, 400, 500}

TransportErrors == {"connect ECONNREFUSED", "read ECONNRESET"}

(***************************************************************************)
(* The state of a call.                                                    *)
(***************************************************************************)
NoResponse == [status |-> 0, body |-> <<>>, chunk |-> 0, pos |-> 0]

\* the size of the chunks of a body sent in n "data" events
ChunkSize(body, n) == (Len(body) + n - 1) \div n

IdleCall ==
  [pc |-> "idle", op |-> "none", params |-> NoParams, requests |-> <<>>,
   req |-> "none", resp |-> NoResponse, responseData |-> <<>>,
   promise |-> NoPromise, outcome |-> NoOutcome]

\* Called with the request issued before the parameters are validated
CalledRequestFirst(cl, op, p) ==
  LET err == Validation(op, p)
      args == RequestArgs(op, p)
      sent == [IdleCall EXCEPT !.pc = "awaiting", !.op = op, !.params = p,
                               !.requests = <<RequestOptions(cl, args.endpoint,
                                                             args.method, args.data)>>,
                               !.req = "open", !.promise = Pending]
  IN IF err # NoError
       THEN [sent EXCEPT !.pc = "done", !.outcome = Raised(err)]
       ELSE sent

\* the synchronous part of a call: validation, then the request of makeRequest
\* (new Promise's executor runs at once: request, handlers, write, end)
Called(cl, op, p) ==
  LET err == Validation(op, p)
      args == RequestArgs(op, p)
  IN IF err # NoError
       THEN [IdleCall EXCEPT !.pc = "done", !.op = op, !.params = p,
                             !.outcome = Raised(err)]
       ELSE [IdleCall EXCEPT !.pc = "awaiting", !.op = op, !.params = p,
                             !.requests = <<RequestOptions(cl, args.endpoint,
                                                           args.method, args.data)>>,
                             !.req = "open", !.promise = Pending]

\* a call takes the first slot that is free
FreeSlot(c) == calls[c].pc = "idle" /\ \A d \in 1..(c - 1) : calls[d].pc # "idle"

\* the caller awaits each call before it makes the next (example-usage.ts)
CanInvoke(c) == FreeSlot(c) /\ \A d \in CallIds : calls[d].pc = "idle"

Invoke(c, op, p) ==
  /\ calls' = [calls EXCEPT ![c] = Called(client, op, p)]
  /\ UNCHANGED <<client, util>>

ServerBodies(request) ==
  GenericBodies \cup
    (IF request.method = "GET" /\ request.path = <<"data", "plans">>
       THEN CatalogBodies ELSE {})

(***************************************************************************)
(* Actions: the operations.                                                *)
(***************************************************************************)
PurchaseAirtime(c) ==
  CanInvoke(c) /\ \E p \in AirtimeParams : Invoke(c, "purchaseAirtime", p)
PurchaseData(c) ==
  CanInvoke(c) /\ \E p \in DataParams : Invoke(c, "purchaseData", p)
VendDataFromWallet(c) ==
  CanInvoke(c) /\ \E p \in VendParams : Invoke(c, "vendDataFromWallet", p)
GetDataPlans(c) == CanInvoke(c) /\ Invoke(c, "getDataPlans", NoParams)
GetWalletBalance(c) == CanInvoke(c) /\ Invoke(c, "getWalletBalance", NoParams)
GetDataPlansByOperator(c) ==
  CanInvoke(c) /\ \E p \in OperatorParams : Invoke(c, "getDataPlansByOperator", p)
FindDataPlan(c) ==
  CanInvoke(c) /\ \E p \in FindParams : Invoke(c, "findDataPlan", p)
GetDataPlanPrice(c) ==
  CanInvoke(c) /\ \E p \in PriceParams : Invoke(c, "getDataPlanPrice", p)
\* the caller calls the transport itself
MakeRequest(c) ==
  CanInvoke(c) /\ \E p \in DirectParams : Invoke(c, "makeRequest", p)

(***************************************************************************)
(* Actions: the events of a request in flight.                             *)
(***************************************************************************)
\* line 76: the response callback, with the status line and headers, for a
\* response the server draws from the given statuses and bodies and sends in
\* one of the given numbers of chunks
ResponseWith(c, statuses, bodies, splits) ==
  /\ calls[c].pc = "awaiting" /\ calls[c].req = "open"
  /\ \E status \in statuses, body \in bodies, n \in splits :
       calls' = [calls EXCEPT ![c].pc = "receiving",
                              ![c].resp = [status |-> status, body |-> body,
                                           chunk |-> ChunkSize(Wire(body), n),
                                           pos |-> 0],
                              ![c].responseData = <<>>]
  /\ UNCHANGED <<client, util>>

Response(c) ==
  ResponseWith(c, Statuses, ServerBodies(calls[c].requests[1]), 1..MaxChunks)

\* Data with one buffer shared by the responses of all the calls in flight
DataShared(c) ==
  /\ calls[c].pc = "receiving" /\ calls[c].req = "open"
  /\ calls[c].resp.pos < Len(Wire(calls[c].resp.body))
  /\ LET r == calls[c].resp
         bytes == Wire(r.body)
         next == IF r.pos + r.chunk <= Len(bytes) THEN r.pos + r.chunk ELSE Len(bytes)
         text == ChunkToString(SubSeq(bytes, r.pos + 1, next))
     IN calls' = [d \in CallIds |->
          IF d = c
            THEN [calls[d] EXCEPT !.responseData = Concat(@, text), !.resp.pos = next]
          ELSE IF calls[d].pc = "receiving"
            THEN [calls[d] EXCEPT !.responseData = Concat(@, text)]
          ELSE calls[d]]
  /\ UNCHANGED <<client, util>>

\* lines 79-81: a "data" event appends its chunk, turned into a string
Data(c) ==
  /\ calls[c].pc = "receiving" /\ calls[c].req = "open"
  /\ calls[c].resp.pos < Len(Wire(calls[c].resp.body))
  /\ LET r == calls[c].resp
         bytes == Wire(r.body)
         next == IF r.pos + r.chunk <= Len(bytes) THEN r.pos + r.chunk ELSE Len(bytes)
     IN calls' = [calls EXCEPT
          ![c].responseData = Concat(@, ChunkToString(SubSeq(bytes, r.pos + 1, next))),
          ![c].resp.pos = next]
  /\ UNCHANGED <<client, util>>

\* lines 83-95: the "end" event, once the whole body has been delivered
End(c) ==
  /\ calls[c].pc = "receiving" /\ calls[c].req = "open"
  /\ calls[c].resp.pos = Len(Wire(calls[c].resp.body))
  /\ calls' = [calls EXCEPT
       ![c].promise = OnEnd(@, calls[c].resp.status, calls[c].responseData),
       ![c].pc = "settled", ![c].req = "closed"]
  /\ UNCHANGED <<client, util>>

\* RequestError sending the request once more after the first failure
RequestErrorRetrying(c) ==
  /\ calls[c].pc \in {"awaiting", "receiving"} /\ calls[c].req = "open"
  /\ \E message \in TransportErrors :
       calls' = IF Len(calls[c].requests) < 2
                  THEN [calls EXCEPT ![c].requests = @ \o <<@[1]>>,
                                     ![c].pc = "awaiting",
                                     ![c].resp = NoResponse, ![c].responseData = <<>>]
                  ELSE [calls EXCEPT ![c].promise = OnError(@, message),
                                     ![c].pc = "settled", ![c].req = "closed",
                                     ![c].resp = NoResponse, ![c].responseData = <<>>]
  /\ UNCHANGED <<client, util>>

\* lines 98-100: an "error" event of the request, before or during the response
RequestError(c) ==
  /\ calls[c].pc \in {"awaiting", "receiving"} /\ calls[c].req = "open"
  /\ \E message \in TransportErrors :
       calls' = [calls EXCEPT ![c].promise = OnError(@, message),
                              ![c].pc = "settled", ![c].req = "closed",
                              ![c].resp = NoResponse, ![c].responseData = <<>>]
  /\ UNCHANGED <<client, util>>

\* lines 102-105: the "timeout" event: req.destroy(), then reject
Timeout(c) ==
  /\ calls[c].pc \in {"awaiting", "receiving"} /\ calls[c].req = "open"
  /\ calls' = [calls EXCEPT ![c].promise = OnTimeout(@),
                            ![c].pc = "settled", ![c].req = "destroyed",
                            ![c].resp = NoResponse, ![c].responseData = <<>>]
  /\ UNCHANGED <<client, util>>

\* lines 98-100 again: the "error" event the destroyed request emits
AbortError(c) ==
  /\ calls[c].req = "destroyed"
  /\ calls' = [calls EXCEPT ![c].promise = OnError(@, "socket hang up"),
                            ![c].req = "closed"]
  /\ UNCHANGED <<client, util>>

\* the connection closes during the response: the response emits "aborted" and
\* "close", for which lines 76-96 register no handler, and never "end"
Cutoff(c) ==
  /\ calls[c].pc = "receiving" /\ calls[c].req = "open"
  /\ calls' = [calls EXCEPT ![c].pc = "stalled", ![c].req = "closed",
                            ![c].resp = NoResponse, ![c].responseData = <<>>]
  /\ UNCHANGED <<client, util>>

\* the operation resumes after its await and returns or throws
Continue(c) ==
  /\ calls[c].pc = "settled"
  /\ calls' = [calls EXCEPT
       ![c].outcome = Continuation(calls[c].op, calls[c].params, calls[c].promise),
       ![c].pc = "done"]
  /\ UNCHANGED <<client, util>>

\* the caller drops a finished call
Release(c) ==
  /\ calls[c].pc = "done"
  /\ calls' = [calls EXCEPT ![c] = IdleCall]
  /\ UNCHANGED <<client, util>>

(***************************************************************************)
(* The static utilities isValidPhone and formatPhone (lines 358-381).  A   *)
(* phone string is the sequence of its characters.                         *)
(***************************************************************************)
Digits == {"0", "1", "2", "3", "4", "5", "6", "7", "8", "9"}

\* the characters \s matches, of those the inputs are made of
Whitespace == {" ", "\t", "\n"}

\* phone.replace(/\s/g, "")
RECURSIVE RemoveWhitespace(_)
RemoveWhitespace(s) ==
  IF s = <<>> THEN <<>>
  ELSE IF Head(s) \in Whitespace THEN RemoveWhitespace(Tail(s))
  ELSE <<Head(s)>> \o RemoveWhitespace(Tail(s))

StartsWith(s, prefix) ==
  Len(s) >= Len(prefix) /\ SubSeq(s, 1, Len(prefix)) = prefix

\* s.substring(n)
Substring(s, n) == SubSeq(s, n + 1, Len(s))

\* /^(\+234|234|0)?[789][01]\d{8}$/ : an optional group of alternatives, then
\* one character class for each of the ten characters that follow
phoneRegex ==
  [alternatives |-> <<(<<"+", "2", "3", "4">>), (<<"2", "3", "4">>), (<<"0">>)>>,
   classes |-> <<{"7", "8", "9"}, {"0", "1"}, Digits, Digits, Digits, Digits,
                 Digits, Digits, Digits, Digits>>]

\* s matches the classes from position i on, one character each, up to its end ($)
RECURSIVE MatchClasses(_, _, _)
MatchClasses(s, i, classes) ==
  IF classes = <<>> THEN i = Len(s) + 1
  ELSE /\ i <= Len(s)
       /\ s[i] \in Head(classes)
       /\ MatchClasses(s, i + 1, Tail(classes))

\* regex.test(s): the group matched by an alternative, tried in order, or by
\* nothing when no alternative leads to a match
RegexTest(regex, s) ==
  \/ \E k \in 1..Len(regex.alternatives) :
       /\ StartsWith(s, regex.alternatives[k])
       /\ MatchClasses(s, Len(regex.alternatives[k]) + 1, regex.classes)
  \/ MatchClasses(s, 1, regex.classes)

\* isValidPhone testing the string as given, whitespace included
isValidPhoneKeepingSpaces(phone) == RegexTest(phoneRegex, phone)

isValidPhone(phone) == RegexTest(phoneRegex, RemoveWhitespace(phone))

\* formatPhone leaving the last character of the +234 prefix in place
formatPhoneShortPrefix(phone) ==
  LET cleaned == RemoveWhitespace(phone)
  IN IF StartsWith(cleaned, <<"+", "2", "3", "4">>) THEN Substring(cleaned, 3)
     ELSE IF StartsWith(cleaned, <<"2", "3", "4">>) THEN Substring(cleaned, 3)
     ELSE IF StartsWith(cleaned, <<"0">>) THEN Substring(cleaned, 1)
     ELSE cleaned

formatPhone(phone) ==
  LET cleaned == RemoveWhitespace(phone)
  IN IF StartsWith(cleaned, <<"+", "2", "3", "4">>) THEN Substring(cleaned, 4)
     ELSE IF StartsWith(cleaned, <<"2", "3", "4">>) THEN Substring(cleaned, 3)
     ELSE IF StartsWith(cleaned, <<"0">>) THEN Substring(cleaned, 1)
     ELSE cleaned

\* the phone strings the utilities are applied to: a prefix or what looks like
\* one, two leading characters, and a tail of about eight characters
PhonePrefixes ==
  {<<>>, <<"+", "2", "3", "4">>, <<"2", "3", "4">>, <<"0">>,
   <<"+">>, <<"0", "0">>, <<"2", "3">>, <<"-">>,
   <<"+", "2", "3", "4", "0">>, <<"+", " ", "2", "3", "4", " ">>, <<"\t", "0">>}

PhoneLeads ==
  {<<a, b>> : a \in {"7", "8", "9", "6", "0", "2"}, b \in {"0", "1", "2", "9"}}

PhoneTailsOf(d) ==
  {d,
   [d EXCEPT ![Len(d)] = "a"],
   SubSeq(d, 1, 3) \o <<" ">> \o SubSeq(d, 4, Len(d)),
   d \o <<"\n">>}

PhoneTails ==
  UNION {PhoneTailsOf([i \in 1..n |-> "5"])
           \cup PhoneTailsOf(SubSeq(<<"1", "2", "3", "4", "5", "6", "7", "8", "9", "0",
                                      "1", "2">>, 1, n)) :
         n \in (8 - PhoneSlack)..(8 + PhoneSlack)}

PhoneStrings ==
  {p \o l \o t : p \in PhonePrefixes, l \in PhoneLeads, t \in PhoneTails}
    \cup {<<>>, <<"1", "2", "3", "4", "5">>}

\* the utilities' caller: the phone string at hand and what it got for it
NoUtil ==
  [phone |-> <<>>, validated |-> FALSE, valid |-> FALSE,
   formatted |-> FALSE, result |-> <<>>]

IsValidPhone ==
  /\ ~util.validated
  /\ util' = [util EXCEPT !.validated = TRUE, !.valid = isValidPhone(util.phone)]
  /\ UNCHANGED <<client, calls>>

FormatPhone ==
  /\ ~util.formatted
  /\ util' = [util EXCEPT !.formatted = TRUE, !.result = formatPhone(util.phone)]
  /\ UNCHANGED <<client, calls>>

InitPhone ==
  /\ client = Constructor("secret-token", NoOptions)
  /\ calls = [c \in CallIds |-> IdleCall]
  /\ util \in {[NoUtil EXCEPT !.phone = s] : s \in PhoneStrings}

NextPhone == IsValidPhone \/ FormatPhone

SpecPhone == InitPhone /\ [][NextPhone]_vars

(***************************************************************************)
(* The specification.                                                      *)
(***************************************************************************)
Init ==
  /\ client \in Clients
  /\ calls = [c \in CallIds |-> IdleCall]
  /\ util = NoUtil

Next ==
  \E c \in CallIds :
    \/ PurchaseAirtime(c)
    \/ PurchaseData(c)
    \/ VendDataFromWallet(c)
    \/ GetDataPlans(c)
    \/ GetWalletBalance(c)
    \/ GetDataPlansByOperator(c)
    \/ FindDataPlan(c)
    \/ GetDataPlanPrice(c)
    \/ MakeRequest(c)
    \/ Response(c)
    \/ Data(c)
    \/ End(c)
    \/ RequestError(c)
    \/ Timeout(c)
    \/ AbortError(c)
    \/ Cutoff(c)
    \/ Continue(c)
    \/ Release(c)

Spec == Init /\ [][Next]_vars

(***************************************************************************)
(* The specification of concurrent calls: the caller issues a call while   *)
(* earlier ones are in flight (each makeRequest has its own promise, its   *)
(* own request and its own buffer "data", lines 55-77), over few inputs.   *)
(***************************************************************************)
ConcAirtimeParams ==
  {[NoParams EXCEPT !.networkOperator = Str("mtn"), !.phone = Str("08012345678"),
                    !.amount = a, !.maxAmount = Str("1000")] :
     a \in {Num(1000), Num(25)}}

ConcPriceParams ==
  {[NoParams EXCEPT !.packageCode = Str("MTN1"), !.priceType = Str("regular")]}

ConcBodies ==
  {Stringify(Envelope(TRUE, Arr(<<Plan("mtn", "MTN1", 100, 90, 80)>>))),
   <<P("{"), TStr("success"), P(":")>>}

ConcPurchaseAirtime(c) ==
  FreeSlot(c) /\ \E p \in ConcAirtimeParams : Invoke(c, "purchaseAirtime", p)
ConcGetDataPlanPrice(c) ==
  FreeSlot(c) /\ \E p \in ConcPriceParams : Invoke(c, "getDataPlanPrice", p)
ConcResponse(c) == ResponseWith(c, {200}, ConcBodies, {ConcChunks})

InitConc ==
  /\ client = Constructor("secret-token", NoOptions)
  /\ calls = [c \in CallIds |-> IdleCall]
  /\ util = NoUtil

NextConc ==
  \E c \in CallIds :
    \/ ConcPurchaseAirtime(c)
    \/ ConcGetDataPlanPrice(c)
    \/ ConcResponse(c)
    \/ Data(c)
    \/ End(c)
    \/ RequestError(c)
    \/ Timeout(c)
    \/ AbortError(c)
    \/ Cutoff(c)
    \/ Continue(c)
    \/ Release(c)

SpecConc == InitConc /\ [][NextConc]_vars

(***************************************************************************)
(* Vocabulary of the properties.                                           *)
(***************************************************************************)
\* the text a call has after the first pos bytes of its response have come
\* in chunks of the given size
RECURSIVE ReceivedText(_, _, _)
ReceivedText(bytes, chunk, pos) ==
  IF pos = 0 THEN <<>>
  ELSE LET start == ((pos - 1) \div chunk) * chunk
       IN Concat(ReceivedText(bytes, chunk, start),
                 ChunkToString(SubSeq(bytes, start + 1, pos)))

\* a parameter is missing (not given) when it is undefined, the empty string
\* or zero
Missing(v) == v \in {Undef, Str(""), Num(0)}

ValidationMessages ==
  {<<"networkOperator, phone, amount, and maxAmount are required">>,
   <<"Invalid network operator. Must be one of: mtn, airtel, glo, 9mobile">>,
   <<"Amount must be between 50 and 50000 NGN">>,
   <<"phone is required">>,
   <<"Either packageCode or planId is required">>,
   <<"processType must be either \"queue\" or \"instant\"">>}

\* the call has ended in a validation error
ValidationFailed(call) ==
  /\ call.pc = "done"
  /\ call.outcome.kind = "error"
  /\ call.outcome.message \in ValidationMessages

\* the call passed validation: its one request has been issued
Accepted(call) == call.pc # "idle" /\ Len(call.requests) = 1

\* the request body as the server decodes it
SentBody(call) == JSONparse(call.requests[1].body).v
Has(obj, key) == \E i \in 1..Len(obj.o) : obj.o[i].k = key

IsPost(call, segs) ==
  LET r == call.requests[1] IN
    /\ r.method = "POST" /\ r.hasBody
    /\ Len(r.path) >= Len(segs)
    /\ SubSeq(r.path, Len(r.path) - Len(segs) + 1, Len(r.path)) = segs

(***************************************************************************)
(* C1: in purchaseAirtime, purchaseData, vendDataFromWallet and            *)
(* getDataPlansByOperator, a call whose parameters fail validation ends in *)
(* a validation error, and a call that ended in a validation error has     *)
(* issued no request.                                                      *)
(***************************************************************************)
C1_NoRequestOnValidationError ==
  \A c \in CallIds :
    LET call == calls[c] IN
      /\ (call.pc # "idle" /\ Validation(call.op, call.params) # NoError)
           => (ValidationFailed(call) /\ Len(call.requests) = 0)
      /\ ValidationFailed(call)
           => (/\ Len(call.requests) = 0
               /\ call.promise = NoPromise
               /\ call.op \in {"purchaseAirtime", "purchaseData",
                               "vendDataFromWallet", "getDataPlansByOperator"})

C1_Witness ==
  \E c \in CallIds :
    /\ calls[c].op = "getDataPlansByOperator"
    /\ calls[c].params.networkOperator = Str("sprint")
    /\ ValidationFailed(calls[c])
    /\ calls[c].requests = <<>>

(***************************************************************************)
(* C2: purchaseAirtime raises a validation error exactly when one of       *)
(* networkOperator, phone, amount, maxAmount is missing, or the operator is*)
(* not one of mtn, airtel, glo, 9mobile, or the amount is below 50 or above*)
(* 50000; otherwise the call is sent as POST /airtime.  50 and 50000 are   *)
(* accepted; 49, 25, 50001 and 60000 are rejected.                         *)
(***************************************************************************)
AirtimeRejects(p) ==
  \/ Missing(p.networkOperator) \/ Missing(p.phone)
  \/ Missing(p.amount) \/ Missing(p.maxAmount)
  \/ p.networkOperator \notin {Str("mtn"), Str("airtel"), Str("glo"), Str("9mobile")}
  \/ p.amount.n < 50
  \/ p.amount.n > 50000

\* a call of purchaseAirtime that is valid but, possibly, for its amount
AirtimeCallOf(amount) ==
  [NoParams EXCEPT !.networkOperator = Str("glo"), !.phone = Str("08012345678"),
                   !.amount = Num(amount), !.maxAmount = Str("1000")]

\* before the caller's next call: every integer amount from -1 to 60000 passes
\* validation exactly when it lies in 50..50000
AmountRangeInclusive ==
  (\A d \in CallIds : calls[d].pc = "idle") =>
    \A amount \in -1..60000 :
      (Called(client, "purchaseAirtime", AirtimeCallOf(amount)).pc = "awaiting")
        <=> (50 <= amount /\ amount <= 50000)

C2_AirtimeValidation ==
  /\ AmountRangeInclusive
  /\ \A c \in CallIds :
    LET call == calls[c] IN
      (call.pc # "idle" /\ call.op = "purchaseAirtime") =>
        /\ ValidationFailed(call) <=> AirtimeRejects(call.params)
        /\ ~AirtimeRejects(call.params) =>
             (Accepted(call) /\ IsPost(call, <<"airtime">>))
        /\ call.params.amount \in {Num(49), Num(25), Num(50001), Num(60000)}
             => ValidationFailed(call)
        /\ ( /\ call.params.amount \in {Num(50), Num(50000)}
             /\ call.params.networkOperator = Str("9mobile")
             /\ call.params.phone = Str("08012345678")
             /\ call.params.maxAmount = Str("1000") )
             => Accepted(call)

C2_Witness ==
  \E c \in CallIds :
    /\ calls[c].op = "purchaseAirtime"
    /\ calls[c].params.amount = Num(50000)
    /\ Accepted(calls[c])
    /\ IsPost(calls[c], <<"airtime">>)
    /\ Get(SentBody(calls[c]), "amount") = Num(50000)

(***************************************************************************)
(* C3: purchaseData and vendDataFromWallet reject a call that gives neither*)
(* packageCode nor planId; the body of every accepted call carries exactly *)
(* one of package_code and plan_id: package_code whenever a package code   *)
(* was given, plan_id only when none was.                                  *)
(***************************************************************************)
C3_PlanIdentifier ==
  \A c \in CallIds :
    LET call == calls[c] IN
      (call.pc # "idle" /\ call.op \in {"purchaseData", "vendDataFromWallet"}) =>
        /\ (Missing(call.params.packageCode) /\ Missing(call.params.planId))
             => (ValidationFailed(call) /\ call.requests = <<>>)
        /\ Accepted(call) =>
             LET body == SentBody(call) IN
               /\ Has(body, "package_code") # Has(body, "plan_id")
               /\ ~Missing(call.params.packageCode) =>
                    Get(body, "package_code") = call.params.packageCode
               /\ Has(body, "plan_id") =>
                    /\ Missing(call.params.packageCode)
                    /\ Get(body, "plan_id") = call.params.planId

C3_Witness ==
  \E c \in CallIds :
    /\ calls[c].op = "purchaseData"
    /\ calls[c].params.packageCode = Str("MTN1")
    /\ calls[c].params.planId = Num(7)
    /\ Accepted(calls[c])
    /\ Has(SentBody(calls[c]), "package_code")
    /\ ~Has(SentBody(calls[c]), "plan_id")

(***************************************************************************)
(* C4: vendDataFromWallet raises a validation error for every process type *)
(* given other than queue and instant, accepts a call with phone and a plan*)
(* identifier whose process type is absent, queue or instant, and puts     *)
(* process_type in the body only when a process type was given.            *)
(***************************************************************************)
C4_ProcessType ==
  \A c \in CallIds :
    LET call == calls[c]
        p == call.params
    IN (call.pc # "idle" /\ call.op = "vendDataFromWallet") =>
        /\ (~Missing(p.processType) /\ p.processType \notin {Str("queue"), Str("instant")})
             => (ValidationFailed(call) /\ call.requests = <<>>)
        /\ ( /\ ~Missing(p.phone)
             /\ ~Missing(p.packageCode) \/ ~Missing(p.planId)
             /\ Missing(p.processType) \/ p.processType \in {Str("queue"), Str("instant")} )
             => (Accepted(call) /\ IsPost(call, <<"data", "wallet">>))
        /\ Accepted(call) =>
             /\ Has(SentBody(call), "process_type") <=> ~Missing(p.processType)
             /\ Has(SentBody(call), "process_type") =>
                  Get(SentBody(call), "process_type") = p.processType

C4_Witness ==
  \E c \in CallIds :
    /\ calls[c].op = "vendDataFromWallet"
    /\ calls[c].params.processType = Str("later")
    /\ calls[c].params.phone = Str("08012345678")
    /\ calls[c].params.packageCode = Str("MTN1")
    /\ ValidationFailed(calls[c])
    /\ calls[c].requests = <<>>

(***************************************************************************)
(* Vocabulary of the catalog properties.                                   *)
(***************************************************************************)
HasProp(obj, key, value) == \E j \in 1..Len(obj.o) : obj.o[j] = Prop(key, value)

\* the envelope carries success: true and a list of plans
HasCatalog(env) ==
  /\ HasProp(env, "success", Bool(TRUE))
  /\ \E j \in 1..Len(env.o) : env.o[j].k = "data" /\ env.o[j].v.t = "arr"

\* the envelope's success flag is false, or it carries no list of plans
NoCatalog(env) ==
  \/ HasProp(env, "success", Bool(FALSE))
  \/ ~Has(env, "data")
  \/ HasProp(env, "data", Null)

CatalogOf(env) == (CHOOSE q \in {env.o[j] : j \in 1..Len(env.o)} : q.k = "data").v.a

\* the k-th smallest member of a set of indices
Kth(idx, k) == CHOOSE i \in idx : Cardinality({j \in idx : j <= i}) = k

\* a finished call of op whose fetch returned an envelope
Fetched(call, op) ==
  /\ call.pc = "done" /\ call.op = op
  /\ call.promise.state = "fulfilled"
  /\ call.promise.value.data.t = "obj"

\* the first plan of the catalog with the package code, or null
FirstWithCode(cat, code) ==
  LET idx == {i \in 1..Len(cat) : HasProp(cat[i], "package_code", code)} IN
    IF idx = {} THEN Null ELSE cat[Kth(idx, 1)]

(***************************************************************************)
(* C5: getDataPlansByOperator returns exactly the entries of the fetched   *)
(* catalog whose network_operator is the requested operator, in catalog    *)
(* order; it returns the empty sequence, and does not raise, when the      *)
(* envelope's success flag is false or its plan list is absent.            *)
(***************************************************************************)
C5_PlansByOperator ==
  \A c \in CallIds :
    LET call == calls[c] IN
      Fetched(call, "getDataPlansByOperator") =>
        LET env == call.promise.value.data IN
          /\ HasCatalog(env) =>
               LET cat == CatalogOf(env)
                   idx == {i \in 1..Len(cat) :
                             HasProp(cat[i], "network_operator",
                                     call.params.networkOperator)}
               IN /\ call.outcome.kind = "result"
                  /\ call.outcome.value.t = "arr"
                  /\ Len(call.outcome.value.a) = Cardinality(idx)
                  /\ \A k \in 1..Cardinality(idx) :
                       call.outcome.value.a[k] = cat[Kth(idx, k)]
          /\ NoCatalog(env) => call.outcome = Returned(Arr(<<>>))

C5_Witness ==
  \E c \in CallIds :
    /\ Fetched(calls[c], "getDataPlansByOperator")
    /\ calls[c].params.networkOperator = Str("mtn")
    /\ HasCatalog(calls[c].promise.value.data)
    /\ CatalogOf(calls[c].promise.value.data)
         = <<Plan("airtel", "AIR1", 200, 0, 180), Plan("mtn", "MTN1", 150, 140, 130)>>
    /\ calls[c].outcome = Returned(Arr(<<Plan("mtn", "MTN1", 150, 140, 130)>>))

(***************************************************************************)
(* C6: findDataPlan returns the first entry of the fetched catalog whose   *)
(* package_code equals the requested code, null when there is none or when *)
(* the success flag is false or the plan list absent, and never an entry   *)
(* with another package code.                                              *)
(***************************************************************************)
C6_FindDataPlan ==
  \A c \in CallIds :
    LET call == calls[c] IN
      Fetched(call, "findDataPlan") =>
        LET env == call.promise.value.data IN
          /\ HasCatalog(env) =>
               call.outcome = Returned(FirstWithCode(CatalogOf(env), call.params.packageCode))
          /\ NoCatalog(env) => call.outcome = Returned(Null)
          /\ call.outcome.kind = "result"
          /\ call.outcome.value # Null =>
               HasProp(call.outcome.value, "package_code", call.params.packageCode)

C6_Witness ==
  \E c \in CallIds :
    /\ Fetched(calls[c], "findDataPlan")
    /\ calls[c].params.packageCode = Str("MTN1")
    /\ HasCatalog(calls[c].promise.value.data)
    /\ CatalogOf(calls[c].promise.value.data)
         = <<Plan("mtn", "MTN1", 150, 140, 130), Plan("mtn", "MTN1", 100, 90, 80)>>
    /\ calls[c].outcome = Returned(Plan("mtn", "MTN1", 150, 140, 130))

(***************************************************************************)
(* C7: getDataPlanPrice returns the found plan's regular_price, agent_price*)
(* or dealer_price for priceType regular, agent or dealer, the regular one *)
(* when priceType is omitted, and null when no plan is found or the price  *)
(* is zero; it issues the one catalog fetch findDataPlan issues.           *)
(***************************************************************************)
TierField(priceType) ==
  CASE priceType = Str("agent") -> "agent_price"
    [] priceType = Str("dealer") -> "dealer_price"
    [] priceType \in {Str("regular"), Undef} -> "regular_price"

PriceIn(plan, field) == (CHOOSE q \in {plan.o[j] : j \in 1..Len(plan.o)} : q.k = field).v

C7_DataPlanPrice ==
  \A c \in CallIds :
    LET call == calls[c] IN
      /\ (call.pc # "idle" /\ call.op = "getDataPlanPrice") =>
           call.requests =
             <<RequestOptions(client, Endpoint(<<"data", "plans">>), "GET", Null)>>
      /\ Fetched(call, "getDataPlanPrice") =>
           LET env == call.promise.value.data
               plan == IF HasCatalog(env)
                         THEN FirstWithCode(CatalogOf(env), call.params.packageCode)
                         ELSE Null
           IN (HasCatalog(env) \/ NoCatalog(env)) =>
                IF plan = Null THEN call.outcome = Returned(Null)
                ELSE LET price == PriceIn(plan, TierField(call.params.priceType)) IN
                  call.outcome = IF price = Num(0) THEN Returned(Null) ELSE Returned(price)

C7_Witness ==
  \E c \in CallIds :
    /\ Fetched(calls[c], "getDataPlanPrice")
    /\ calls[c].params.packageCode = Str("MTN1")
    /\ calls[c].params.priceType = Undef
    /\ HasCatalog(calls[c].promise.value.data)
    /\ CatalogOf(calls[c].promise.value.data)
         = <<Plan("airtel", "AIR1", 200, 0, 180), Plan("mtn", "MTN1", 150, 140, 130)>>
    /\ calls[c].outcome = Returned(Num(150))

\* a found plan whose price in the requested tier is zero
C7_ZeroPriceReached ==
  \E c \in CallIds :
    /\ Fetched(calls[c], "getDataPlanPrice")
    /\ calls[c].params.packageCode = Str("AIR1")
    /\ calls[c].params.priceType = Str("agent")
    /\ HasCatalog(calls[c].promise.value.data)
    /\ CatalogOf(calls[c].promise.value.data) = <<Plan("airtel", "AIR1", 200, 0, 180)>>
    /\ calls[c].outcome = Returned(Null)

(***************************************************************************)
(* C8: when the timeout event of a request fires before its response has   *)
(* ended, the request is destroyed and the call fails with "Request        *)
(* timeout"; from then on the promise keeps that error, whatever error     *)
(* event the destroyed request emits, and the call never returns a result. *)
(***************************************************************************)
TimeoutMessage == <<"Request timeout">>

TimedOut(call) == call.promise.state = "rejected" /\ call.promise.error = TimeoutMessage

C8_TimeoutStep(c) ==
  LET before == calls[c]
      after == calls'[c]
  IN /\ (before.req = "open" /\ after.req = "destroyed") =>
          /\ before.pc \in {"awaiting", "receiving"}
          /\ before.promise.state = "pending"
          /\ TimedOut(after)
          /\ after.outcome = NoOutcome
     /\ before.req = "destroyed" => TimedOut(before)
     /\ (TimedOut(before) /\ after.pc # "idle") =>
          /\ TimedOut(after)
          /\ after.req # "open"
          /\ after.outcome.kind # "result"
          /\ after.pc = "done" => after.outcome = Raised(TimeoutMessage)

C8_Timeout == [][\A c \in CallIds : C8_TimeoutStep(c)]_vars

\* the destroyed request has emitted its error event and the call has failed
C8_Witness ==
  \E c \in CallIds :
    /\ TimedOut(calls[c])
    /\ calls[c].req = "closed"
    /\ calls[c].pc = "done"
    /\ calls[c].outcome = Raised(TimeoutMessage)

(***************************************************************************)
(* C9: for every status code and every JSON body the server sends,         *)
(* makeRequest fulfils with that status code and the decoded body, and     *)
(* purchaseAirtime, purchaseData, vendDataFromWallet, getDataPlans and     *)
(* getWalletBalance return the decoded body as it is.                      *)
(***************************************************************************)
ServerValues == GenericValues \cup CatalogValues
Encoded == {[v |-> v, body |-> Stringify(v)] : v \in ServerValues}

\* the response of the call has ended: its whole body has been received
Ended(call) == call.pc \in {"settled", "done"} /\ call.resp.status # 0

UnwrappingOps ==
  {"purchaseAirtime", "purchaseData", "vendDataFromWallet", "getDataPlans",
   "getWalletBalance"}

C9_NoInterpretation ==
  \A c \in CallIds :
    LET call == calls[c] IN
      Ended(call) =>
        \A e \in Encoded :
          call.resp.body = e.body =>
            /\ call.promise =
                 [state |-> "fulfilled",
                  value |-> [statusCode |-> call.resp.status, data |-> e.v]]
            /\ (call.pc = "done" /\ call.op \in UnwrappingOps) =>
                 call.outcome = Returned(e.v)
            /\ (call.pc = "done" /\ call.op = "makeRequest") =>
                 call.outcome =
                   Returned(Obj(<<Prop("statusCode", Num(call.resp.status)),
                                  Prop("data", e.v)>>))

\* the body has no multi-byte character that its chunks split
WholeCharacters(resp) ==
  ReceivedText(Wire(resp.body), resp.chunk, Len(Wire(resp.body))) = resp.body

\* what does hold: the same, for the responses whose chunks split no character
C9_UnsplitCharacters ==
  \A c \in CallIds :
    LET call == calls[c] IN
      (Ended(call) /\ WholeCharacters(call.resp)) =>
        \A e \in Encoded :
          call.resp.body = e.body =>
            /\ call.promise =
                 [state |-> "fulfilled",
                  value |-> [statusCode |-> call.resp.status, data |-> e.v]]
            /\ (call.pc = "done" /\ call.op \in UnwrappingOps) =>
                 call.outcome = Returned(e.v)
            /\ (call.pc = "done" /\ call.op = "makeRequest") =>
                 call.outcome =
                   Returned(Obj(<<Prop("statusCode", Num(call.resp.status)),
                                  Prop("data", e.v)>>))

\* getWalletBalance returns a message other than the one the server sent
C9_SplitCharacterReached ==
  \E c \in CallIds :
    /\ Ended(calls[c]) /\ calls[c].pc = "done"
    /\ calls[c].op = "getWalletBalance"
    /\ calls[c].resp.status = 200
    /\ calls[c].resp.body =
         Stringify(Obj(<<Prop("success", Bool(TRUE)), Prop("message", Str("café")),
                         Prop("ids", Arr(<<Num(1)>>))>>))
    /\ calls[c].outcome =
         Returned(Obj(<<Prop("success", Bool(TRUE)), Prop("message", Str("caf��")),
                        Prop("ids", Arr(<<Num(1)>>))>>))

C9_Witness ==
  \E c \in CallIds :
    /\ Ended(calls[c])
    /\ calls[c].pc = "done"
    /\ calls[c].op = "purchaseAirtime"
    /\ calls[c].resp.status = 500
    /\ calls[c].outcome =
         Returned(Obj(<<Prop("success", Bool(FALSE)),
                        Prop("message", Str("Insufficient balance"))>>))

(***************************************************************************)
(* C10: a response whose complete body is not JSON makes the call fail     *)
(* with a parse error whose message holds the message of the decode error, *)
(* whatever the status code; the call never returns a result.              *)
(***************************************************************************)
DecodeMessages == {"Unexpected end of JSON input", "Unexpected token in JSON"}

C10_ParseError ==
  \A c \in CallIds :
    LET call == calls[c] IN
      (Ended(call) /\ call.resp.body \in InvalidTexts) =>
        /\ call.promise.state = "rejected"
        /\ Len(call.promise.error) = 2
        /\ call.promise.error[1] = "Failed to parse response: "
        /\ call.promise.error[2] \in DecodeMessages
        /\ call.promise.error[2] = JSONparse(call.resp.body).message
        /\ call.outcome.kind # "result"
        /\ call.pc = "done" => call.outcome = Raised(call.promise.error)

C10_Witness ==
  \E c \in CallIds :
    /\ Ended(calls[c])
    /\ calls[c].pc = "done"
    /\ calls[c].resp.status = 200
    /\ calls[c].resp.body = <<TBad("<html>")>>
    /\ calls[c].outcome =
         Raised(<<"Failed to parse response: ", "Unexpected token in JSON">>)

(***************************************************************************)
(* C11: every call of every operation, the three that delegate to          *)
(* getDataPlans included, issues at most one outbound request over its     *)
(* whole lifetime: the request is issued when the call starts, and no      *)
(* later step of the call issues another one, in particular not the steps  *)
(* that follow a network error, a timeout or a parse error (no retry).     *)
(***************************************************************************)
DelegatingOps == {"getDataPlansByOperator", "findDataPlan", "getDataPlanPrice"}

\* the call has failed in the transport: network error, timeout or parse error
TransportFailed(call) ==
  /\ call.promise.state = "rejected"
  /\ call.promise.error[1] \in
       {"Request failed: ", "Request timeout", "Failed to parse response: "}

C11_Step ==
  \A c \in CallIds :
    /\ Len(calls[c].requests) <= 1
    /\ Len(calls'[c].requests) <= 1
    \* a call in progress keeps the requests it has issued
    /\ (calls[c].pc # "idle" /\ calls'[c].pc # "idle")
         => calls'[c].requests = calls[c].requests
    \* a failed call issues nothing until it is over
    /\ TransportFailed(calls[c])
         => calls'[c].requests \in {calls[c].requests, <<>>}

C11_AtMostOneRequest == [][C11_Step]_vars

\* a getDataPlanPrice call over after a network error, with its one request
C11_Witness ==
  \E c \in CallIds :
    /\ calls[c].pc = "done"
    /\ calls[c].op \in DelegatingOps
    /\ TransportFailed(calls[c])
    /\ calls[c].promise.error[1] = "Request failed: "
    /\ calls[c].outcome.kind = "error"
    /\ Len(calls[c].requests) = 1

\* calls over after a timeout and after a parse error, with one request each
C11_OtherFailuresReached ==
  \E c \in CallIds :
    /\ calls[c].pc = "done" /\ Len(calls[c].requests) = 1
    /\ calls[c].promise.state = "rejected"
    /\ calls[c].promise.error[1] = "Failed to parse response: "

(***************************************************************************)
(* C12: calls issued concurrently on one client do not interfere.  No      *)
(* step changes the client's token, base URL or timeout; under every       *)
(* interleaving of the calls' events each step is a step of one call and   *)
(* leaves every other call as it was; and what a call holds is determined  *)
(* by its own parameters and the events of its own request, as when it     *)
(* runs alone: its request is built from its parameters, its buffer is     *)
(* the part of its own response delivered so far, its promise is settled   *)
(* from its own response, and its outcome follows from its own promise.    *)
(***************************************************************************)
\* the call holds what its own parameters and its own events give it
OwnCourse(cl, call) ==
  LET err == Validation(call.op, call.params)
      args == RequestArgs(call.op, call.params)
  IN /\ (call.pc # "idle" /\ err # NoError)
          => call.pc = "done" /\ call.outcome = Raised(err) /\ call.requests = <<>>
     /\ (call.pc # "idle" /\ err = NoError)
          => call.requests = <<RequestOptions(cl, args.endpoint, args.method, args.data)>>
     /\ call.pc = "receiving"
          => call.responseData =
               ReceivedText(Wire(call.resp.body), call.resp.chunk, call.resp.pos)
     /\ (call.pc \in {"settled", "done"} /\ call.resp.status # 0)
          => call.promise =
               OnEnd(Pending, call.resp.status,
                     ReceivedText(Wire(call.resp.body), call.resp.chunk,
                                  Len(Wire(call.resp.body))))
     /\ (call.pc = "done" /\ err = NoError)
          => call.outcome = Continuation(call.op, call.params, call.promise)

C12_Step ==
  /\ client' = client
  /\ \E c \in CallIds : \A d \in CallIds \ {c} : calls'[d] = calls[d]
  /\ \A c \in CallIds : OwnCourse(client, calls[c]) /\ OwnCourse(client', calls'[c])

C12_NoInterference == [][C12_Step]_vars

\* two calls of different operations in the middle of their responses at once
C12_Witness ==
  \E c, d \in CallIds :
    /\ calls[c].op = "purchaseAirtime" /\ calls[d].op = "getDataPlanPrice"
    /\ calls[c].pc = "receiving" /\ calls[d].pc = "receiving"
    /\ calls[c].resp.pos > 0 /\ calls[c].resp.pos < Len(calls[c].resp.body)
    /\ calls[d].resp.pos > 0 /\ calls[d].resp.pos < Len(calls[d].resp.body)
    /\ calls[c].resp.body # calls[d].resp.body

\* two calls over at once, one with a result and one with an error
C12_BothOverReached ==
  \E c, d \in CallIds :
    /\ calls[c].pc = "done" /\ calls[d].pc = "done"
    /\ calls[c].requests # <<>> /\ calls[d].requests # <<>>
    /\ calls[c].outcome.kind = "result" /\ calls[d].outcome.kind = "error"

(***************************************************************************)
(* C13: isValidPhone returns true if and only if the input, after all      *)
(* whitespace is removed, is an optional prefix +234, 234 or 0 followed by *)
(* one digit of 7, 8, 9, one digit of 0, 1 and exactly eight more digits,  *)
(* with nothing before or after; it returns false for every other string.  *)
(***************************************************************************)
NotSpace(ch) == ch \notin Whitespace
WithoutSpaces(s) == SelectSeq(s, NotSpace)

\* a local number: one of 7, 8, 9, one of 0, 1, and eight more digits
LocalNumber(s) ==
  /\ Len(s) = 10
  /\ s[1] \in {"7", "8", "9"}
  /\ s[2] \in {"0", "1"}
  /\ \A i \in 3..10 : s[i] \in Digits

\* what comes before the last ten characters of s
LeadOf(s) == SubSeq(s, 1, Len(s) - 10)

WellFormed(s) ==
  /\ Len(s) >= 10
  /\ LocalNumber(SubSeq(s, Len(s) - 9, Len(s)))
  /\ LeadOf(s) \in {<<>>, <<"+", "2", "3", "4">>, <<"2", "3", "4">>, <<"0">>}

C13_IsValidPhone ==
  util.validated => (util.valid <=> WellFormed(WithoutSpaces(util.phone)))

\* a number with the +234 prefix and whitespace inside it found valid
C13_Witness ==
  /\ util.validated /\ util.valid
  /\ StartsWith(util.phone, <<"+", " ", "2", "3", "4">>)
  /\ Len(util.phone) > Len(WithoutSpaces(util.phone))

\* "12345" and numbers with 7 and with 9 digits after the two leading ones
\* found invalid
C13_RejectionReached ==
  /\ util.validated /\ ~util.valid
  /\ util.phone = <<"8", "0">> \o [i \in 1..9 |-> "5"]

(***************************************************************************)
(* C14: formatPhone removes all whitespace and then exactly one leading    *)
(* prefix, tried in the order +234, 234, 0, and returns the string         *)
(* unchanged when none applies; it leaves a stripped 10-digit local number *)
(* as it is; and for every input isValidPhone accepts it returns the       *)
(* 10-digit local number, which isValidPhone accepts as well.              *)
(***************************************************************************)
\* the number of leading characters of s that make up its prefix
PrefixLength(s) ==
  IF Len(s) >= 4 /\ s[1] = "+" /\ s[2] = "2" /\ s[3] = "3" /\ s[4] = "4" THEN 4
  ELSE IF Len(s) >= 3 /\ s[1] = "2" /\ s[2] = "3" /\ s[3] = "4" THEN 3
  ELSE IF Len(s) >= 1 /\ s[1] = "0" THEN 1
  ELSE 0

C14_FormatPhone ==
  util.formatted =>
    LET clean == WithoutSpaces(util.phone)
        n == PrefixLength(clean)
    IN /\ Len(util.result) = Len(clean) - n
       /\ \A i \in 1..Len(util.result) : util.result[i] = clean[n + i]
       /\ LocalNumber(util.phone) => util.result = util.phone
       /\ isValidPhone(util.phone) =>
            /\ LocalNumber(util.result)
            /\ util.result = SubSeq(clean, Len(clean) - 9, Len(clean))
            /\ isValidPhone(util.result)
            /\ formatPhone(util.result) = util.result

\* a valid number with the +234 prefix and whitespace, formatted
C14_Witness ==
  /\ util.formatted /\ util.validated /\ util.valid
  /\ StartsWith(util.phone, <<"+", " ", "2", "3", "4">>)
  /\ util.result = <<"8", "0", "1", "2", "3", "4", "5", "6", "7", "8">>

\* "8012345678" formatted, and a string from which only one prefix is removed
C14_LocalReached ==
  /\ util.formatted
  /\ util.phone = <<"8", "0", "1", "2", "3", "4", "5", "6", "7", "8">>
  /\ util.result = util.phone

C14_OnePrefixReached ==
  /\ util.formatted
  /\ StartsWith(util.phone, <<"+", "2", "3", "4", "0">>)
  /\ StartsWith(util.result, <<"0">>)

(***************************************************************************)
(* C15: every call that passes validation ends in exactly one outcome, a   *)
(* returned result or a raised error, whatever the transport events after  *)
(* the request is sent: a response that ends normally, a connection error  *)
(* before a response, a timeout, or a response that starts and is cut off  *)
(* before its "end" event.  No call stays pending forever: once the        *)
(* request is closed and no event of it can follow, the call's promise is  *)
(* settled, and a call with a settled promise resumes and ends; and none   *)
(* ends in a partial state: a call has an outcome exactly when it is over. *)
(***************************************************************************)
Settled(promise) == promise.state \in {"fulfilled", "rejected"}

C15_EveryCallEnds ==
  \A c \in CallIds :
    /\ calls[c].req = "closed" => Settled(calls[c].promise)
    /\ Settled(calls[c].promise) => calls[c].pc \in {"settled", "done"}
    /\ calls[c].pc = "done" => calls[c].outcome.kind \in {"result", "error"}
    /\ calls[c].pc # "done" => calls[c].outcome = NoOutcome

\* a call whose response was cut off: its request is closed, its promise is
\* pending, and the call is neither settled nor over
C15_StalledReached ==
  \E c \in CallIds :
    /\ calls[c].pc = "stalled"
    /\ calls[c].promise = Pending
    /\ calls[c].req = "closed"
    /\ calls[c].outcome = NoOutcome

(***************************************************************************)
(* C16: the endpoint of each operation is resolved against the configured  *)
(* base URL so that the request goes to the base URL's host and port with  *)
(* a path made of the base URL's path followed by the endpoint: with the   *)
(* default base URL purchaseAirtime requests /api/v1/airtime and           *)
(* getWalletBalance /api/v1/balance, and likewise for an override of the   *)
(* base URL that has a path.                                               *)
(***************************************************************************)
DefaultPort(base) ==
  IF base.port # 0 THEN base.port ELSE IF base.protocol = "https:" THEN 443 ELSE 80

C16_PathUnderBase ==
  \A c \in CallIds :
    Len(calls[c].requests) = 1 =>
      LET request == calls[c].requests[1]
          endpoint == RequestArgs(calls[c].op, calls[c].params).endpoint
      IN /\ request.hostname = client.baseURL.hostname
         /\ request.port = DefaultPort(client.baseURL)
         /\ request.path = client.baseURL.path \o endpoint.segs

\* purchaseAirtime on a client with the default base URL requests /airtime
C16_BarePathReached ==
  \E c \in CallIds :
    /\ client.baseURL = DefaultBaseURL
    /\ calls[c].op = "purchaseAirtime"
    /\ Len(calls[c].requests) = 1
    /\ calls[c].requests[1].hostname = "www.airtimenigeria.com"
    /\ calls[c].requests[1].port = 443
    /\ calls[c].requests[1].path = <<"airtime">>
====
